---- MODULE Spec2Model ----
(***************************************************************************)
(* Model of API_Biblioteca/app.py: a Flask service over one peewee table   *)
(* (Livro).  Every action is one HTTP request handled to completion: the   *)
(* handler's reads and writes of the table and the HTTP response Flask     *)
(* produces from the handler's return value or exception.                  *)
(*                                                                         *)
(* Text is a sequence of one-character strings.  A JSON value is a record  *)
(* with a single field named after its JSON type: [str |-> s],             *)
(* [int |-> n] or [bool |-> b].  A JSON object (the request body) is a     *)
(* function from the keys it holds to JSON values.                         *)
(***************************************************************************)
EXTENDS Integers, Sequences, FiniteSets, TLC

VARIABLES
    table,   \* the Livro table: a function from the ids in use to rows
    old,     \* the table as it was when the last request arrived
    req,     \* the last request: [op, lid, data]
    resp,    \* the response to it: [status, text, json]
    served   \* number of requests served so far

vars == <<table, old, req, resp, served>>

\* Requests served in one run.
MaxRequests == 2
\* Largest id a client puts in the path of a request.
MaxLid == 3

----------------------------------------------------------------------------
(* Text and JSON values *)

IsSpace(c) == c \in {" ", "\t", "\n"}

RECURSIVE lstrip(_)
lstrip(s) == IF s /= << >> /\ IsSpace(Head(s)) THEN lstrip(Tail(s)) ELSE s

RECURSIVE rstrip(_)
rstrip(s) ==
    IF s /= << >> /\ IsSpace(s[Len(s)])
    THEN rstrip(SubSeq(s, 1, Len(s) - 1))
    ELSE s

\* str.strip() with only the left end trimmed.
strip_left_only(s) == lstrip(s)

\* str.strip(): leading and trailing whitespace removed.
strip(s) == rstrip(lstrip(s))

JStr(s) == [str |-> s]
JInt(n) == [int |-> n]
JBool(b) == [bool |-> b]

IsJStr(v) == DOMAIN v = {"str"}
IsJInt(v) == DOMAIN v = {"int"}
IsJBool(v) == DOMAIN v = {"bool"}

Digits == {"0", "1", "2", "3", "4", "5", "6", "7", "8", "9"}

\* int(v) raises ValueError: v is text that, trimmed, is no run of digits
\* (an optional sign aside).
int_raises(v) ==
    /\ IsJStr(v)
    /\ LET s == strip(v.str)
           d == IF s /= << >> /\ Head(s) \in {"+", "-"} THEN Tail(s) ELSE s
       IN  d = << >> \/ \E i \in 1..Len(d) : d[i] \notin Digits

\* int(v) of a JSON integer or boolean.  (Numeric text is not among the
\* inputs: int_raises holds of every text the requests carry.)
int(v) == IF IsJInt(v) THEN v.int ELSE IF IsJBool(v) THEN (IF v.bool THEN 1 ELSE 0) ELSE 0

\* str(v) of JSON text.
str(v) == v.str

----------------------------------------------------------------------------
(* The table *)

EstruturasDeDados ==
    <<"E","s","t","r","u","t","u","r","a","s"," ","d","e"," ","D","a","d","o","s">>
NWirth == <<"N","."," ","W","i","r","t","h">>
CleanCode == <<"C","l","e","a","n"," ","C","o","d","e">>
RMartin == <<"R","."," ","M","a","r","t","i","n">>

\* A row of Livro, its id aside: the id is the key of the table.
Livro(titulo, autor, ano, disponivel) ==
    [titulo |-> titulo, autor |-> autor, ano |-> ano, disponivel |-> disponivel]

\* BooleanField(default=True)
DisponivelDefault == TRUE

Max(S) == CHOOSE m \in S : \A x \in S : x <= m

\* AutoField: an INTEGER PRIMARY KEY, which the store fills with one more
\* than the largest id in use (1 in an empty table).
NextId(t) == IF DOMAIN t = {} THEN 1 ELSE Max(DOMAIN t) + 1

\* Livro.create(**fields): one row under a fresh id.
Create(t, row) ==
    LET id == NextId(t)
    IN  [i \in DOMAIN t \cup {id} |-> IF i = id THEN row ELSE t[i]]

\* Livro.delete() with the comparison of the where clause turned to <=.
DeleteWhereUpTo(t, lid) == [i \in {j \in DOMAIN t : j > lid} |-> t[i]]

\* Livro.delete().where(Livro.id == lid).execute()
DeleteWhere(t, lid) == [i \in DOMAIN t \ {lid} |-> t[i]]

\* Livro.update(disponivel = d) without its where clause.
UpdateDisponivelEverywhere(t, lid, d) ==
    [i \in DOMAIN t |-> [t[i] EXCEPT !.disponivel = d]]

\* Livro.update(disponivel = d).where(Livro.id == lid).execute()
UpdateDisponivel(t, lid, d) ==
    [i \in DOMAIN t |-> IF i = lid THEN [t[i] EXCEPT !.disponivel = d] ELSE t[i]]

\* Livro.update(...) of all four fields, text trimmed as criar_livro does.
UpdateAllTrimmed(t, lid, row) ==
    [i \in DOMAIN t |->
        IF i = lid
        THEN [row EXCEPT !.titulo = strip(row.titulo), !.autor = strip(row.autor)]
        ELSE t[i]]

\* Livro.update(disponivel, autor, titulo, ano).where(Livro.id == lid).execute()
UpdateAll(t, lid, row) == [i \in DOMAIN t |-> IF i = lid THEN row ELSE t[i]]

\* init_db(): the two rows put in an empty table.
init_db ==
    Create(Create(<< >>, Livro(EstruturasDeDados, NWirth, 1976, TRUE)),
           Livro(CleanCode, RMartin, 2008, TRUE))

RECURSIVE Ascending(_)
Ascending(S) ==
    IF S = {} THEN << >>
    ELSE LET m == CHOOSE x \in S : \A y \in S : x <= y
         IN  <<m>> \o Ascending(S \ {m})

\* The item a list route builds of a row.
Item(t, id) ==
    [titulo |-> t[id].titulo, autor |-> t[id].autor, ano |-> t[id].ano,
     id |-> id, disponivel |-> t[id].disponivel]

\* Livro.select() with an optional where, rows in the store's order (by
\* id), each made an item.
Select(t, ids) ==
    LET order == Ascending(ids)
    IN  [k \in 1..Len(order) |-> Item(t, order[k])]

----------------------------------------------------------------------------
(* Responses *)

NoJson == << >>
NoData == << >>

\* A handler that returns text: Flask answers 200 with it.
Text(msg) == [status |-> 200, text |-> msg, json |-> NoJson]
\* A handler that returns jsonify(x).
Json(x) == [status |-> 200, text |-> "", json |-> x]
\* abort(400, description=...)
Abort400 == [status |-> 400, text |-> "Campos obrigatorios: titulo, autor, ano", json |-> NoJson]
\* An exception no handler catches (KeyError, IndexError, ValueError), or
\* a view that returns None: Flask answers 500.
Unhandled(exc) == [status |-> 500, text |-> exc, json |-> NoJson]

----------------------------------------------------------------------------
(* Requests *)

Keys == {"titulo", "autor", "ano", "disponivel"}

Titulos == { << >>, <<" ", "a", " ">>, <<"a", " ", "b">> }
Autores == { <<" ">>, <<"b", " ">> }
Anos == {2020}
\* Text in place of the year, as a client may send it.
AnosTexto == { <<"x">> }

Value(k, t, a, y, d) ==
    CASE k = "titulo" -> JStr(t)
      [] k = "autor" -> JStr(a)
      [] k = "ano" -> y
      [] k = "disponivel" -> JBool(d)

\* The bodies of POST /api/livros: any subset of the keys.
CriarData ==
    { [k \in K |-> Value(k, t, a, y, d)] :
        K \in SUBSET Keys, t \in Titulos, a \in Autores,
        y \in {JInt(n) : n \in Anos} \cup {JStr(s) : s \in AnosTexto},
        d \in BOOLEAN }

\* The bodies of the PATCH routes: any subset of the keys, typed as the
\* routes document them.
PatchData ==
    { [k \in K |-> Value(k, t, a, y, d)] :
        K \in SUBSET Keys, t \in Titulos, a \in Autores,
        y \in {JInt(n) : n \in Anos}, d \in BOOLEAN }

DisponivelData == { p \in PatchData : DOMAIN p \subseteq {"disponivel"} }

Lids == 0..MaxLid

Request(op, lid, data) == [op |-> op, lid |-> lid, data |-> data]

\* One request served: the table and response it leaves.
Serve(r, t, out) ==
    /\ served < MaxRequests
    /\ served' = served + 1
    /\ old' = table
    /\ req' = r
    /\ table' = t
    /\ resp' = out

----------------------------------------------------------------------------
(* Routes *)

\* GET /api/livros
listar_livros ==
    Serve(Request("listar_livros", 0, NoData), table, Json(Select(table, DOMAIN table)))

\* GET /api/livros/<lid>
obter_livro ==
    \E lid \in Lids :
        Serve(Request("obter_livro", lid, NoData), table,
              IF lid \in DOMAIN table
              THEN Json(<<[titulo |-> table[lid].titulo,
                           autor |-> table[lid].autor,
                           ano |-> table[lid].ano]>>)
              ELSE Unhandled("IndexError"))

\* obrig without the year.
obrig_sem_ano == {"titulo", "autor"}

\* obrig = ["titulo", "autor", "ano"]
obrig == {"titulo", "autor", "ano"}

\* POST /api/livros
criar_livro ==
    \E data \in CriarData :
        IF ~(obrig \subseteq DOMAIN data)
        THEN Serve(Request("criar_livro", 0, data), table, Abort400)
        ELSE IF ~({"titulo", "autor", "ano"} \subseteq DOMAIN data)
        THEN Serve(Request("criar_livro", 0, data), table, Unhandled("KeyError"))
        ELSE IF int_raises(data["ano"])
        THEN Serve(Request("criar_livro", 0, data), table, Unhandled("ValueError"))
        ELSE Serve(Request("criar_livro", 0, data),
                   Create(table, Livro(strip(str(data["titulo"])),
                                       strip(str(data["autor"])),
                                       int(data["ano"]),
                                       DisponivelDefault)),
                   Text("Livro adicionado com sucesso"))

\* DELETE /api/livros/<lid>
remover_livro ==
    \E lid \in Lids :
        Serve(Request("remover_livro", lid, NoData), DeleteWhere(table, lid),
              Text("Livro removido com sucesso!"))

\* PATCH /api/livros/<lid>/disponibilidade
atualizar_disponibilidade ==
    \E lid \in Lids, data \in DisponivelData :
        IF "disponivel" \notin DOMAIN data
        THEN Serve(Request("atualizar_disponibilidade", lid, data), table,
                   Unhandled("KeyError"))
        ELSE Serve(Request("atualizar_disponibilidade", lid, data),
                   UpdateDisponivel(table, lid, data["disponivel"].bool),
                   Text("Livro atualizado com sucesso"))

\* GET /api/livros/disponiveis: the handler builds lst and ends without
\* returning it, so the view returns None and Flask raises TypeError.
listar_livros_disponiveis ==
    LET lst == Select(table, {i \in DOMAIN table : table[i].disponivel = TRUE})
    IN  Serve(Request("listar_livros_disponiveis", 0, NoData), table,
              Unhandled("TypeError"))

\* PATCH /api/livros/<lid>/editar
editar ==
    \E lid \in Lids, data \in PatchData :
        IF ~(Keys \subseteq DOMAIN data)
        THEN Serve(Request("editar", lid, data), table, Unhandled("KeyError"))
        ELSE Serve(Request("editar", lid, data),
                   UpdateAll(table, lid, Livro(data["titulo"].str, data["autor"].str,
                                               data["ano"].int, data["disponivel"].bool)),
                   Text("Livro editado com sucesso"))

----------------------------------------------------------------------------

Init ==
    /\ table = init_db
    /\ old = init_db
    /\ req = Request("init_db", 0, NoData)
    /\ resp = Text("")
    /\ served = 0

Next ==
    \/ listar_livros
    \/ obter_livro
    \/ criar_livro
    \/ remover_livro
    \/ atualizar_disponibilidade
    \/ listar_livros_disponiveis
    \/ editar

Spec == Init /\ [][Next]_vars

----------------------------------------------------------------------------
(* Properties *)

CriarKeys == {"titulo", "autor", "ano"}

\* out is text with whitespace removed from both ends and nothing else.
Trimmed(out, text) ==
    /\ out = << >> \/ (~IsSpace(out[1]) /\ ~IsSpace(out[Len(out)]))
    /\ \E i \in 0..Len(text) :
        /\ i + Len(out) <= Len(text)
        /\ SubSeq(text, i + 1, i + Len(out)) = out
        /\ \A k \in 1..Len(text) : (k <= i \/ k > i + Len(out)) => IsSpace(text[k])

Blank(text) == \A k \in 1..Len(text) : IsSpace(text[k])

\* The rows with every field but the flag.
SameButDisponivel(a, b) ==
    a.titulo = b.titulo /\ a.autor = b.autor /\ a.ano = b.ano

\* C1: GET /api/livros/<lid> with a lid that matches no row answers 404.
C1_ObterAusente404 ==
    (req.op = "obter_livro" /\ req.lid \notin DOMAIN old) => resp.status = 404

\* C2: GET /api/livros/disponiveis answers 200 with the items of exactly the
\* rows whose flag is true, as many as the rows less those whose flag is
\* false.
C2_ListaDisponiveis ==
    req.op = "listar_livros_disponiveis" =>
        LET disp == {i \in DOMAIN table : table[i].disponivel}
            indisp == {i \in DOMAIN table : ~table[i].disponivel}
        IN  /\ resp.status = 200
            /\ resp.json = Select(table, disp)
            /\ Len(resp.json) = Cardinality(DOMAIN table) - Cardinality(indisp)

\* C3: POST /api/livros with titulo, autor and an integer ano adds exactly
\* one row, under an id no row had, with titulo and autor trimmed at both
\* ends and the year as sent, and leaves every earlier row as it was.
C3_CriarLivro ==
    (/\ req.op = "criar_livro"
     /\ CriarKeys \subseteq DOMAIN req.data
     /\ IsJInt(req.data["ano"]))
    => /\ resp.status = 200
       /\ Cardinality(DOMAIN table) = Cardinality(DOMAIN old) + 1
       /\ \E id \in DOMAIN table \ DOMAIN old :
            /\ DOMAIN table = DOMAIN old \cup {id}
            /\ Trimmed(table[id].titulo, req.data["titulo"].str)
            /\ Trimmed(table[id].autor, req.data["autor"].str)
            /\ table[id].ano = req.data["ano"].int
       /\ \A i \in DOMAIN old : i \in DOMAIN table /\ table[i] = old[i]

\* A create that trimmed both ends of a title and the right end of an
\* author, after an earlier request.
C3_Witness ==
    /\ req.op = "criar_livro"
    /\ served = 2
    /\ resp.status = 200
    /\ req.data["titulo"].str = <<" ", "a", " ">>
    /\ req.data["autor"].str = <<"b", " ">>
    /\ \E id \in DOMAIN table \ DOMAIN old :
        table[id].titulo = <<"a">> /\ table[id].autor = <<"b">>

\* C4: the row a create stores has the flag the body gives, true when the
\* body gives none.
C4_CriarHonraDisponivel ==
    (req.op = "criar_livro" /\ resp.status = 200) =>
        \A id \in DOMAIN table \ DOMAIN old :
            table[id].disponivel =
                IF "disponivel" \in DOMAIN req.data
                THEN req.data["disponivel"].bool
                ELSE TRUE

\* C5: the PATCH routes answer 400 to a body that lacks a field they need,
\* and leave the table as it was.
C5_PatchIncompleto400 ==
    (\/ req.op = "atualizar_disponibilidade" /\ "disponivel" \notin DOMAIN req.data
     \/ req.op = "editar" /\ ~(Keys \subseteq DOMAIN req.data))
    => (resp.status = 400 /\ table = old)

\* C6: POST /api/livros with a body that lacks titulo, autor or ano answers
\* 400 and leaves the table as it was.
C6_CriarIncompleto400 ==
    (req.op = "criar_livro" /\ ~(CriarKeys \subseteq DOMAIN req.data))
    => (resp.status = 400 /\ table = old)

\* A create refused for the year alone.
C6_Witness ==
    /\ req.op = "criar_livro"
    /\ DOMAIN req.data = {"titulo", "autor", "disponivel"}
    /\ resp.status = 400
    /\ table = old

\* C7: PATCH disponibilidade on an id in the table sets the flag of that row
\* to the boolean sent and changes no other field and no other row.
C7_AtualizarSoDisponivel ==
    (/\ req.op = "atualizar_disponibilidade"
     /\ "disponivel" \in DOMAIN req.data
     /\ req.lid \in DOMAIN old)
    => /\ resp.status = 200
       /\ DOMAIN table = DOMAIN old
       /\ table[req.lid].disponivel = req.data["disponivel"].bool
       /\ SameButDisponivel(table[req.lid], old[req.lid])
       /\ \A i \in DOMAIN old \ {req.lid} : table[i] = old[i]

\* A flag turned false on one row while another row keeps its true flag.
C7_Witness ==
    /\ req.op = "atualizar_disponibilidade"
    /\ req.lid \in DOMAIN old
    /\ old[req.lid].disponivel
    /\ ~table[req.lid].disponivel
    /\ \E i \in DOMAIN table \ {req.lid} : table[i].disponivel

\* C8: PATCH editar with all four fields on an id in the table leaves that
\* row, still under its id, with the four values as sent, untrimmed, and
\* every other row as it was.
C8_EditarSobrescreve ==
    (/\ req.op = "editar"
     /\ Keys \subseteq DOMAIN req.data
     /\ req.lid \in DOMAIN old)
    => /\ resp.status = 200
       /\ DOMAIN table = DOMAIN old
       /\ table[req.lid] = Livro(req.data["titulo"].str, req.data["autor"].str,
                                 req.data["ano"].int, req.data["disponivel"].bool)
       /\ \A i \in DOMAIN old \ {req.lid} : table[i] = old[i]

\* An edit that changed all four fields of a row and stored a title with
\* its surrounding spaces, beside another row.
C8_Witness ==
    /\ req.op = "editar"
    /\ req.lid \in DOMAIN old
    /\ Keys \subseteq DOMAIN req.data
    /\ table[req.lid].titulo = <<" ", "a", " ">>
    /\ table[req.lid].titulo /= old[req.lid].titulo
    /\ table[req.lid].autor /= old[req.lid].autor
    /\ table[req.lid].ano /= old[req.lid].ano
    /\ table[req.lid].disponivel /= old[req.lid].disponivel
    /\ DOMAIN old \ {req.lid} /= {}

C10_TituloAutorNaoVazios ==
    \A i \in DOMAIN table : ~Blank(table[i].titulo) /\ ~Blank(table[i].autor)

====
